---- MODULE Spec2Model ----
(***************************************************************************)
(* A model of arangod/Cache/Cache.cpp: the Finding handle (lease/release  *)
(* of cached values), the lifecycle of a cache (limit, usage, resize,     *)
(* beginShutdown, shutdown) and the rate-limited requests to the manager  *)
(* (requestResize, requestMigrate).                                       *)
(*                                                                         *)
(* Every thread of the program is a process with a program counter; one   *)
(* action is one step of a method between two accesses to shared state.   *)
(* State, Metadata, Manager, CachedValue and the statistics buffer are    *)
(* collaborators of Cache.cpp: they are modelled at their interface.      *)
(***************************************************************************)
EXTENDS Integers, Sequences, FiniteSets, TLC

\* ------------------------------------------------------------------ bounds
NThreads == 2
NClosers == 1
MaxTime == 2
MaxLimit == 2
MaxLogSize == 2
SampleCap == 3
MaxInsertions == 8192
NFindings == 3
NValues == 2

\* --------------------------------------------------------- program constants
LockTries == 10
LockForever == -1
InsertionMask == 4095
RatioFactor == 16
InitialUsage == 1
InitialLimit == 2
InitialLogSize == 1

Threads == 1..(NThreads + NClosers)
Workers == 1..NThreads
Closers == Threads \ Workers
Times == 0..MaxTime
Limits == 1..MaxLimit
Requests == 0..1
Tags == {"eviction", "noEviction"}
Findings == 1..NFindings
Values == 1..NValues
Null == 0

VARIABLES
    \* Cache members
    stateLock,            \* _state's lock bit: 0 when free, else the holder
    flags,                \* _state's flags
    openOperations,       \* _openOperations
    allowGrowth,          \* _allowGrowth
    insertionCount,       \* _insertionCount
    evictionStats,        \* _evictionStats: the records held, per tag
    migrateRequestTime,   \* _migrateRequestTime
    resizeRequestTime,    \* _resizeRequestTime
    metadata,             \* *_metadata, the manager's record of this cache
    \* the environment
    now,                  \* std::chrono::steady_clock::now()
    clearTablesCalls,     \* calls of clearTables() so far
    unregisterCalls,      \* calls of Manager::unregisterCache so far
    shutdownReturned,     \* some call of shutdown() has returned
    managerAnswer,        \* the manager's last answer: <<accepted, time>>
    fault,                \* the process has run into undefined behaviour
    thread,               \* each thread's position and locals
    \* Finding handles and cached values
    finding, cached, tableBusy

cacheVars == <<stateLock, flags, openOperations, allowGrowth, insertionCount,
               evictionStats, migrateRequestTime, resizeRequestTime, metadata>>
envVars == <<now, clearTablesCalls, unregisterCalls, shutdownReturned,
             managerAnswer, fault>>
cfgVars == <<allowGrowth, insertionCount, evictionStats>>
timeVars == <<migrateRequestTime, resizeRequestTime>>
findingVars == <<finding, cached, tableBusy>>
vars == <<cacheVars, envVars, thread, findingVars>>

\* ------------------------------------------------------------ initial state
IdleThread ==
    [pc |-> "idle", op |-> "none", arg |-> 0, allowed |-> FALSE,
     resized |-> FALSE, ret |-> 0, newLimit |-> 0, tries |-> 0,
     stats |-> <<>>, waited |-> FALSE, called |-> FALSE]

NoFinding == [alive |-> FALSE, value |-> Null, pc |-> "idle", arg |-> Null,
              src |-> Null]

NewValue == [refCount |-> 0, linked |-> TRUE, freed |-> FALSE,
             freePc |-> "none", deletes |-> 0, waited |-> FALSE]

\* a constructor that leaves the flags alone when registerCache throws
CacheInitNoFlag(registered, Growth) ==
    /\ stateLock = 0
    /\ flags = {}
    /\ openOperations = 0
    /\ allowGrowth \in Growth
    /\ insertionCount = 0
    /\ evictionStats = [g \in Tags |-> 0]
    /\ now = 0
    /\ migrateRequestTime = now
    /\ resizeRequestTime = now
    /\ metadata = [valid |-> registered, lock |-> 0, resizing |-> FALSE,
                   migrating |-> FALSE,
                   hardLimit |-> InitialLimit, softLimit |-> InitialLimit,
                   usage |-> InitialUsage, logSize |-> InitialLogSize]

\* Cache::Cache: registerCache either returns the metadata or throws
\* std::bad_alloc, and then the shutdown flag is set.
CacheInit(registered, Growth) ==
    /\ stateLock = 0
    /\ flags = IF registered THEN {} ELSE {"shutdown"}
    /\ openOperations = 0
    /\ allowGrowth \in Growth
    /\ insertionCount = 0
    /\ evictionStats = [g \in Tags |-> 0]
    /\ now = 0
    /\ migrateRequestTime = now
    /\ resizeRequestTime = now
    /\ metadata = [valid |-> registered, lock |-> 0, resizing |-> FALSE,
                   migrating |-> FALSE,
                   hardLimit |-> InitialLimit, softLimit |-> InitialLimit,
                   usage |-> InitialUsage, logSize |-> InitialLogSize]

EnvInit ==
    /\ clearTablesCalls = 0
    /\ unregisterCalls = 0
    /\ shutdownReturned = FALSE
    /\ managerAnswer = <<FALSE, 0>>
    /\ fault = FALSE
    /\ thread = [t \in Threads |-> IdleThread]

FindingInit ==
    /\ finding = [f \in Findings |-> NoFinding]
    /\ cached = [v \in Values |-> NewValue]
    /\ tableBusy = FALSE

\* ------------------------------------------------------------- State, lock
\* Cache::isOperational
isOperational == "shutdown" \notin flags /\ "shuttingDown" \notin flags

\* Cache::isMigrating
isMigrating == "migrating" \in flags

Goto(t, l) == thread' = [thread EXCEPT ![t].pc = l]

\* The thread returns to its caller: the locals that the caller does not see
\* are dropped.
Returned(r) ==
    IF r.op \in {"limit", "usage", "resize", "requestResize"}
      THEN [IdleThread EXCEPT !.pc = "done", !.op = r.op,
                              !.resized = r.resized, !.ret = r.ret,
                              !.called = r.called]
      ELSE IdleThread

\* State::lock(maxTries), one attempt per step: the attempt finds the lock
\* free and takes it, or finds it held. It spins for ever when maxTries < 0
\* and gives up at the maxTries-th failed attempt otherwise.
lockFree == stateLock = 0

lockRetry(t, maxTries) ==
    /\ stateLock # 0
    /\ maxTries >= 0
    /\ thread[t].tries + 1 < maxTries
    /\ thread' = [thread EXCEPT ![t].tries = @ + 1]

lockGivenUp(t, maxTries) ==
    /\ stateLock # 0
    /\ maxTries >= 0
    /\ thread[t].tries + 1 >= maxTries

\* Metadata::lock
metaLocked(t) == metadata' = [metadata EXCEPT !.lock = t]

\* A thread calls a method of the cache.
Entry(o) ==
    CASE o \in {"limit", "usage"} -> "q_lock"
      [] o = "resize" -> "rs_lock"
      [] o = "beginShutdown" -> "bs_lock"
      [] o = "shutdown" -> "sd_lock"
      [] o = "requestResize" -> "rr_lock"
      [] o = "requestMigrate" -> "rm_count"
      [] o = "reclaimMemory" -> "rc_lock"

Args(o) ==
    CASE o \in {"resize", "requestResize", "reclaimMemory"} -> Requests
      [] o = "requestMigrate" -> {0, MaxLogSize}
      [] OTHER -> {0}

Call(t, o) ==
    /\ thread[t].pc \in {"idle", "done"}
    /\ o = "requestMigrate" =>
          /\ insertionCount < MaxInsertions
          /\ insertionCount % (InsertionMask + 1) \in {0, InsertionMask}
    /\ o = "reclaimMemory" => metadata.valid
    /\ \E a \in Args(o) :
         thread' = [thread EXCEPT ![t] =
                      [IdleThread EXCEPT !.pc = Entry(o), !.op = o,
                                         !.arg = a]]
    /\ UNCHANGED <<cacheVars, envVars, findingVars>>

\* ------------------------------------------------------------ the manager
\* The times the manager may name as the next time a request is allowed:
\* at once, or later.
managerTimes == {now, MaxTime}

\* Manager::requestResize(metadata, newLimit): the outcomes
\* <<accepted, next request time, metadata afterwards>>. A granted resize is
\* either done at once or left in flight with the resizing flag set; a
\* request is not granted while a resize is in flight.
managerResize(m, limit) ==
    {<<FALSE, T, m>> : T \in managerTimes}
    \cup (IF ~m.valid
            THEN {<<TRUE, T, m>> : T \in managerTimes}
            ELSE IF ~m.resizing /\ limit \in Limits
            THEN {<<TRUE, T, [m EXCEPT !.hardLimit = limit,
                                       !.softLimit = limit]>> : T \in managerTimes}
                 \cup {<<TRUE, T, [m EXCEPT !.softLimit = limit,
                                            !.resizing = TRUE]>> : T \in managerTimes}
            ELSE {})

\* Manager::requestMigrate(metadata, newLogSize): the outcomes, as above.
managerMigrate(m, size) ==
    {<<FALSE, T, m>> : T \in managerTimes}
    \cup (IF ~m.valid
            THEN {<<TRUE, T, m>> : T \in managerTimes}
            ELSE IF ~m.migrating /\ size \in 1..MaxLogSize
            THEN {<<TRUE, T, [m EXCEPT !.logSize = size,
                                       !.migrating = TRUE]>> : T \in managerTimes}
            ELSE {})

\* The manager finishes the resize in flight.
managerResized ==
    /\ ~fault
    /\ metadata.valid /\ metadata.resizing /\ metadata.lock = 0
    /\ metadata' = [metadata EXCEPT !.resizing = FALSE,
                                    !.hardLimit = metadata.softLimit]
    /\ UNCHANGED <<stateLock, flags, openOperations, cfgVars, timeVars,
                   envVars, thread, findingVars>>

\* The migration that the manager has granted begins: the migrating flag
\* of _state is set, under the lock of _state.
migrateStarted ==
    /\ ~fault
    /\ metadata.valid /\ metadata.migrating
    /\ "migrating" \notin flags
    /\ stateLock = 0
    /\ flags' = flags \cup {"migrating"}
    /\ UNCHANGED <<stateLock, openOperations, cfgVars, timeVars, metadata,
                   envVars, thread, findingVars>>

\* The manager finishes the migration in flight: the migrating flags of
\* _state (if the migration had begun) and of the metadata are cleared.
managerMigrated ==
    /\ ~fault
    /\ metadata.valid /\ metadata.migrating /\ metadata.lock = 0
    /\ "migrating" \in flags => stateLock = 0
    /\ flags' = flags \ {"migrating"}
    /\ metadata' = [metadata EXCEPT !.migrating = FALSE]
    /\ UNCHANGED <<stateLock, openOperations, cfgVars, timeVars,
                   envVars, thread, findingVars>>

\* What a read of a limit through _metadata gives: the field, or anything
\* when _metadata refers to no registered metadata.
readMeta(field, domain) == IF metadata.valid THEN {field} ELSE domain

\* ------------------------------------------------------- limit() and usage()
\* limit() and usage() without the test of isOperational()
queryLockUnchecked(t) ==
    /\ thread[t].pc = "q_lock"
    /\ lockFree
    /\ stateLock' = t
    /\ Goto(t, "q_mlock")
    /\ UNCHANGED <<flags, openOperations, cfgVars, timeVars, metadata,
                   envVars, findingVars>>

\* _state.lock(); if (isOperational()) ... else: _state.unlock(); return 0
queryLock(t) ==
    /\ thread[t].pc = "q_lock"
    /\ lockFree
    /\ IF isOperational
         THEN /\ stateLock' = t
              /\ Goto(t, "q_mlock")
         ELSE /\ thread' = [thread EXCEPT ![t] =
                              Returned([thread[t] EXCEPT !.ret = 0])]
              /\ UNCHANGED stateLock
    /\ UNCHANGED <<flags, openOperations, cfgVars, timeVars, metadata,
                   envVars, findingVars>>

\* _metadata->lock()
queryMeta(t) ==
    /\ thread[t].pc = "q_mlock"
    /\ metadata.lock = 0
    /\ metaLocked(t)
    /\ Goto(t, "q_read")
    /\ UNCHANGED <<stateLock, flags, openOperations, cfgVars, timeVars,
                   envVars, findingVars>>

\* limit = _metadata->softLimit() (usage = _metadata->usage());
\* _metadata->unlock(); _state.unlock(); return
queryRead(t) ==
    /\ thread[t].pc = "q_read"
    /\ metadata' = [metadata EXCEPT !.lock = 0]
    /\ stateLock' = 0
    /\ thread' = [thread EXCEPT ![t] =
                    Returned([thread[t] EXCEPT !.ret =
                        IF thread[t].op = "limit" THEN metadata.softLimit
                                                  ELSE metadata.usage])]
    /\ UNCHANGED <<flags, openOperations, cfgVars, timeVars, envVars,
                   findingVars>>

\* ------------------------------------------------------------------ resize()
\* Cache::startOperation
startOperation == openOperations' = openOperations + 1

\* an endOperation that leaves the counter alone
endOperationNever == UNCHANGED openOperations

\* Cache::endOperation
endOperation == openOperations' = openOperations - 1

\* _state.lock(); allowed = isOperational(); resized = false;
\* startOperation(); _state.unlock()
resizeStart(t) ==
    /\ thread[t].pc = "rs_lock"
    /\ lockFree
    /\ startOperation
    /\ thread' = [thread EXCEPT ![t].allowed = isOperational,
                                ![t].resized = FALSE,
                                ![t].pc = IF isOperational THEN "rs_poll"
                                                           ELSE "rs_end"]
    /\ UNCHANGED <<stateLock, flags, cfgVars, timeVars, metadata, envVars,
                   findingVars>>

\* while (true): _metadata->lock()
resizePoll(t) ==
    /\ thread[t].pc = "rs_poll"
    /\ metadata.lock = 0
    /\ metaLocked(t)
    /\ Goto(t, "rs_polled")
    /\ UNCHANGED <<stateLock, flags, openOperations, cfgVars, timeVars,
                   envVars, findingVars>>

\* if (!_metadata->isSet(resizing)) { unlock; break; } unlock;
\* after the loop: requestResize(requestedLimit, false)
resizePolled(t) ==
    /\ thread[t].pc = "rs_polled"
    /\ metadata' = [metadata EXCEPT !.lock = 0]
    /\ Goto(t, IF metadata.resizing THEN "rs_poll" ELSE "rr_lock")
    /\ UNCHANGED <<stateLock, flags, openOperations, cfgVars, timeVars,
                   envVars, findingVars>>

\* endOperation(); return resized
resizeEnd(t) ==
    /\ thread[t].pc = "rs_end"
    /\ endOperation
    /\ thread' = [thread EXCEPT ![t] = Returned(thread[t])]
    /\ UNCHANGED <<stateLock, flags, cfgVars, timeVars, metadata, envVars,
                   findingVars>>

\* ------------------------------------------------------------ requestResize
internal(t) == thread[t].op = "requestResize"

\* lockTries = internal ? 10LL : -1LL
lockTries(t) == IF internal(t) THEN LockTries ELSE LockForever

\* the test of requestResize without the comparison of the times
resizeDueNoCooldown(t) == ~internal(t) \/ allowGrowth

\* !internal || (_allowGrowth && now() > _resizeRequestTime)
resizeDue(t) ==
    ~internal(t) \/ (allowGrowth /\ now > resizeRequestTime)

\* requestResize returns to resize() or, called on its own, to its caller
requestResizeReturn(r) ==
    IF r.op = "resize" THEN [r EXCEPT !.pc = "rs_end"] ELSE Returned(r)

\* ok = _state.lock(lockTries); if (ok) { if (...) {...} _state.unlock(); }
\* return resized
requestResizeLock(t) ==
    /\ thread[t].pc = "rr_lock"
    /\ \/ /\ lockFree
          /\ IF resizeDue(t)
               THEN /\ stateLock' = t
                    /\ thread' = [thread EXCEPT ![t].pc = "rr_mlock",
                                                ![t].tries = 0]
               ELSE /\ thread' = [thread EXCEPT ![t] =
                                    requestResizeReturn(thread[t])]
                    /\ UNCHANGED stateLock
       \/ /\ lockRetry(t, lockTries(t))
          /\ UNCHANGED stateLock
       \/ /\ lockGivenUp(t, lockTries(t))
          /\ thread' = [thread EXCEPT ![t] = requestResizeReturn(thread[t])]
          /\ UNCHANGED stateLock
    /\ UNCHANGED <<flags, openOperations, cfgVars, timeVars, metadata,
                   envVars, findingVars>>

\* _metadata->lock()
requestResizeMeta(t) ==
    /\ thread[t].pc = "rr_mlock"
    /\ metadata.lock = 0
    /\ metaLocked(t)
    /\ Goto(t, "rr_read")
    /\ UNCHANGED <<stateLock, flags, openOperations, cfgVars, timeVars,
                   envVars, findingVars>>

\* the limit asked for, passed on as it is
chosenLimitAsAsked(requestedLimit, hard) == requestedLimit

\* newLimit = (requestedLimit > 0) ? requestedLimit : hardLimit() * 2
chosenLimit(requestedLimit, hard) ==
    IF requestedLimit > 0 THEN requestedLimit ELSE hard * 2

\* requestResize without the _metadata->unlock() before the manager's call
requestResizeReadLocked(t) ==
    /\ thread[t].pc = "rr_read"
    /\ \E hard \in readMeta(metadata.hardLimit, Limits) :
         thread' = [thread EXCEPT
                      ![t].newLimit = chosenLimit(thread[t].arg, hard),
                      ![t].called = TRUE,
                      ![t].pc = "rr_incall"]
    /\ UNCHANGED <<stateLock, flags, openOperations, cfgVars, timeVars,
                   metadata, envVars, findingVars>>

\* newLimit = ...; _metadata->unlock(); _manager->requestResize(_metadata,
\* newLimit) is entered
requestResizeRead(t) ==
    /\ thread[t].pc = "rr_read"
    /\ \E hard \in readMeta(metadata.hardLimit, Limits) :
         thread' = [thread EXCEPT
                      ![t].newLimit = chosenLimit(thread[t].arg, hard),
                      ![t].called = TRUE,
                      ![t].pc = "rr_incall"]
    /\ metadata' = [metadata EXCEPT !.lock = 0]
    /\ UNCHANGED <<stateLock, flags, openOperations, cfgVars, timeVars,
                   envVars, findingVars>>

\* what requestResize stores of the manager's answer <<accepted, time>>
resizeStored(accepted, T) == T

\* result = the manager's answer; _resizeRequestTime = result.second;
\* resized = result.first; _state.unlock(); return resized
requestResizeAnswer(t) ==
    /\ thread[t].pc = "rr_incall"
    /\ metadata.lock = 0
    /\ \E out \in managerResize(metadata, thread[t].newLimit) :
         /\ metadata' = out[3]
         /\ managerAnswer' = <<out[1], out[2]>>
         /\ resizeRequestTime' = resizeStored(out[1], out[2])
         /\ thread' = [thread EXCEPT ![t] =
                         requestResizeReturn(
                             [thread[t] EXCEPT !.resized = out[1]])]
    /\ stateLock' = 0
    /\ UNCHANGED <<flags, openOperations, cfgVars, migrateRequestTime, now,
                   clearTablesCalls, unregisterCalls, shutdownReturned, fault,
                   findingVars>>

\* ----------------------------------------------------------- the statistics
\* _evictionStats.getFrequencies(): the tags present with their counts,
\* the most frequent first (a tie: the tag declared first comes first).
getFrequencies(s) ==
    LET e == <<"eviction", s["eviction"]>>
        n == <<"noEviction", s["noEviction"]>>
    IN  IF e[2] = 0 /\ n[2] = 0 THEN <<>>
        ELSE IF n[2] = 0 THEN <<e>>
        ELSE IF e[2] = 0 THEN <<n>>
        ELSE IF e[2] >= n[2] THEN <<e, n>> ELSE <<n, e>>

\* Cache::recordStat: _evictionStats.insertRecord(stat). The buffer keeps
\* the last SampleCap records: once full, a record replaces an older one.
recordStat(stat) ==
    /\ ~fault
    /\ \/ /\ evictionStats["eviction"] + evictionStats["noEviction"]
               < SampleCap
          /\ evictionStats' = [evictionStats EXCEPT ![stat] = @ + 1]
       \/ /\ evictionStats["eviction"] + evictionStats["noEviction"]
               >= SampleCap
          /\ \E old \in Tags :
               /\ evictionStats[old] > 0
               /\ evictionStats' =
                    [[evictionStats EXCEPT ![old] = @ - 1] EXCEPT
                        ![stat] = @ + 1]
    /\ UNCHANGED <<stateLock, flags, openOperations, allowGrowth,
                   insertionCount, timeVars, metadata, envVars, thread,
                   findingVars>>

\* ----------------------------------------------------------- requestMigrate
\* a mask of no bits: every insertion passes the gate
lowBitsNone(x) == x % 1

\* x & 0xFFF
lowBits(x) == x % (InsertionMask + 1)

\* A run of calls of requestMigrate none of which finds the low bits of the
\* counter zero: each of them only increments _insertionCount.
requestMigrateSkipped(t) ==
    /\ thread[t].pc \in {"idle", "done"}
    /\ lowBits(insertionCount) < InsertionMask
    /\ insertionCount < MaxInsertions
    /\ insertionCount' =
         insertionCount + (InsertionMask - lowBits(insertionCount))
    /\ UNCHANGED <<stateLock, flags, openOperations, allowGrowth,
                   evictionStats, timeVars, metadata, envVars, thread,
                   findingVars>>

\* if ((++_insertionCount & 0xFFF) == 0)
requestMigrateCount(t) ==
    /\ thread[t].pc = "rm_count"
    /\ insertionCount' = insertionCount + 1
    /\ thread' = [thread EXCEPT ![t] =
                    IF lowBits(insertionCount + 1) = 0
                      THEN [thread[t] EXCEPT !.pc = "rm_stats"]
                      ELSE Returned(thread[t])]
    /\ UNCHANGED <<stateLock, flags, openOperations, allowGrowth,
                   evictionStats, timeVars, metadata, envVars, findingVars>>

\* (stats->size() == 1 && (*stats)[0].first == eviction) ||
\* (stats->size() == 2 && (*stats)[0].second * 16 > (*stats)[1].second)
migratePressure(st) ==
    \/ Len(st) = 1 /\ st[1][1] = "eviction"
    \/ Len(st) = 2 /\ st[1][2] * RatioFactor > st[2][2]

\* stats = _evictionStats.getFrequencies(); if (...)
requestMigrateStats(t) ==
    /\ thread[t].pc = "rm_stats"
    /\ LET st == getFrequencies(evictionStats)
       IN  thread' = [thread EXCEPT ![t] =
                        IF migratePressure(st)
                          THEN [thread[t] EXCEPT !.stats = st,
                                                 !.pc = "rm_lock"]
                          ELSE Returned(thread[t])]
    /\ UNCHANGED <<cacheVars, envVars, findingVars>>

\* !isMigrating() && now() > _migrateRequestTime
migrateDue == ~isMigrating /\ now > migrateRequestTime

\* requestMigrate going on without the lock when the tries are used up
requestMigrateLockAnyway(t) ==
    /\ thread[t].pc = "rm_lock"
    /\ \/ /\ lockFree
          /\ IF migrateDue
               THEN /\ stateLock' = t
                    /\ thread' = [thread EXCEPT ![t].pc = "rm_mlock",
                                                ![t].tries = 0]
               ELSE /\ thread' = [thread EXCEPT ![t] = Returned(thread[t])]
                    /\ UNCHANGED stateLock
       \/ /\ lockRetry(t, LockTries)
          /\ UNCHANGED stateLock
       \/ /\ lockGivenUp(t, LockTries)
          /\ thread' = [thread EXCEPT ![t].pc = "rm_mlock", ![t].tries = 0]
          /\ UNCHANGED stateLock
    /\ UNCHANGED <<flags, openOperations, cfgVars, timeVars, metadata,
                   envVars, findingVars>>

\* ok = _state.lock(10LL); if (ok) { if (...) {...} _state.unlock(); }
requestMigrateLock(t) ==
    /\ thread[t].pc = "rm_lock"
    /\ \/ /\ lockFree
          /\ IF migrateDue
               THEN /\ stateLock' = t
                    /\ thread' = [thread EXCEPT ![t].pc = "rm_mlock",
                                                ![t].tries = 0]
               ELSE /\ thread' = [thread EXCEPT ![t] = Returned(thread[t])]
                    /\ UNCHANGED stateLock
       \/ /\ lockRetry(t, LockTries)
          /\ UNCHANGED stateLock
       \/ /\ lockGivenUp(t, LockTries)
          /\ thread' = [thread EXCEPT ![t] = Returned(thread[t])]
          /\ UNCHANGED stateLock
    /\ UNCHANGED <<flags, openOperations, cfgVars, timeVars, metadata,
                   envVars, findingVars>>

\* _metadata->lock()
requestMigrateMeta(t) ==
    /\ thread[t].pc = "rm_mlock"
    /\ metadata.lock = 0
    /\ metaLocked(t)
    /\ Goto(t, "rm_read")
    /\ UNCHANGED <<stateLock, flags, openOperations, cfgVars, timeVars,
                   envVars, findingVars>>

\* newLogSize = (requestedLogSize > 0) ? requestedLogSize : logSize() + 1
chosenLogSize(requestedLogSize, size) ==
    IF requestedLogSize > 0 THEN requestedLogSize ELSE size + 1

\* newLogSize = ...; _metadata->unlock(); _manager->requestMigrate(_metadata,
\* newLogSize) is entered
requestMigrateRead(t) ==
    /\ thread[t].pc = "rm_read"
    /\ \E size \in readMeta(metadata.logSize, 1..MaxLogSize) :
         thread' = [thread EXCEPT
                      ![t].newLimit = chosenLogSize(thread[t].arg, size),
                      ![t].called = TRUE,
                      ![t].pc = "rm_incall"]
    /\ metadata' = [metadata EXCEPT !.lock = 0]
    /\ UNCHANGED <<stateLock, flags, openOperations, cfgVars, timeVars,
                   envVars, findingVars>>

\* result = the manager's answer; _resizeRequestTime = result.second;
\* if (result.first) _evictionStats.clear(); _state.unlock()
requestMigrateAnswer(t) ==
    /\ thread[t].pc = "rm_incall"
    /\ metadata.lock = 0
    /\ \E out \in managerMigrate(metadata, thread[t].newLimit) :
         /\ metadata' = out[3]
         /\ managerAnswer' = <<out[1], out[2]>>
         /\ resizeRequestTime' = out[2]
         /\ evictionStats' = IF out[1] THEN [g \in Tags |-> 0]
                                       ELSE evictionStats
    /\ stateLock' = 0
    /\ thread' = [thread EXCEPT ![t] = Returned(thread[t])]
    /\ UNCHANGED <<flags, openOperations, allowGrowth, insertionCount,
                   migrateRequestTime, now, clearTablesCalls,
                   unregisterCalls, shutdownReturned, fault, findingVars>>

\* ------------------------------------------------------------ reclaimMemory
\* _metadata->lock()
reclaimLock(t) ==
    /\ thread[t].pc = "rc_lock"
    /\ metadata.lock = 0
    /\ metaLocked(t)
    /\ Goto(t, "rc_adjust")
    /\ UNCHANGED <<stateLock, flags, openOperations, cfgVars, timeVars,
                   envVars, findingVars>>

\* Metadata::adjustUsageIfAllowed with a negative delta: the usage is
\* lowered by size, if it is that large.
adjustUsage(usage, size) == IF usage >= size THEN usage - size ELSE usage

\* _metadata->adjustUsageIfAllowed(-size); underLimit = ...;
\* _metadata->unlock(); return underLimit
reclaimAdjust(t) ==
    /\ thread[t].pc = "rc_adjust"
    /\ metadata' = [metadata EXCEPT
                      !.usage = adjustUsage(metadata.usage, thread[t].arg),
                      !.lock = 0]
    /\ thread' = [thread EXCEPT ![t] = Returned(thread[t])]
    /\ UNCHANGED <<stateLock, flags, openOperations, cfgVars, timeVars,
                   envVars, findingVars>>

\* ------------------------------------------------------------ beginShutdown
\* State::toggleFlag
toggleFlag(F, f) == IF f \in F THEN F \ {f} ELSE F \cup {f}

\* a beginShutdown that toggles the flag without looking
beginShutdownUnchecked(t) ==
    /\ thread[t].pc = "bs_lock"
    /\ lockFree
    /\ flags' = toggleFlag(flags, "shuttingDown")
    /\ thread' = [thread EXCEPT ![t] = Returned(thread[t])]
    /\ UNCHANGED <<stateLock, openOperations, cfgVars, timeVars, metadata,
                   envVars, findingVars>>

\* _state.lock(); if (!shutdown && !shuttingDown) toggleFlag(shuttingDown);
\* _state.unlock()
beginShutdown(t) ==
    /\ thread[t].pc = "bs_lock"
    /\ lockFree
    /\ flags' = IF "shutdown" \notin flags /\ "shuttingDown" \notin flags
                  THEN toggleFlag(flags, "shuttingDown")
                  ELSE flags
    /\ thread' = [thread EXCEPT ![t] = Returned(thread[t])]
    /\ UNCHANGED <<stateLock, openOperations, cfgVars, timeVars, metadata,
                   envVars, findingVars>>

\* ----------------------------------------------------------------- shutdown
\* _state.lock(); if (!shutdown) { if (!shuttingDown)
\* toggleFlag(shuttingDown); ... } else: _state.unlock(); return
shutdownLock(t) ==
    /\ thread[t].pc = "sd_lock"
    /\ lockFree
    /\ IF "shutdown" \notin flags
         THEN /\ flags' = IF "shuttingDown" \notin flags
                            THEN toggleFlag(flags, "shuttingDown")
                            ELSE flags
              /\ stateLock' = t
              /\ Goto(t, "sd_drain")
              /\ UNCHANGED shutdownReturned
         ELSE /\ shutdownReturned' = TRUE
              /\ thread' = [thread EXCEPT ![t] = Returned(thread[t])]
              /\ UNCHANGED <<flags, stateLock>>
    /\ UNCHANGED <<openOperations, cfgVars, timeVars, metadata, now,
                   clearTablesCalls, unregisterCalls, managerAnswer, fault,
                   findingVars>>

\* shutdown() without its loop on _openOperations
shutdownDrainNoWait(t) ==
    /\ thread[t].pc = "sd_drain"
    /\ Goto(t, "sd_clear")
    /\ UNCHANGED <<stateLock, flags, openOperations, cfgVars, timeVars,
                   metadata, envVars, findingVars>>

\* while (_openOperations.load() > 0) { _state.unlock(); usleep(10); ...
shutdownDrain(t) ==
    /\ thread[t].pc = "sd_drain"
    /\ IF openOperations > 0
         THEN /\ stateLock' = 0
              /\ thread' = [thread EXCEPT ![t].pc = "sd_relock",
                                          ![t].waited = TRUE]
         ELSE /\ Goto(t, "sd_clear")
              /\ UNCHANGED stateLock
    /\ UNCHANGED <<flags, openOperations, cfgVars, timeVars, metadata,
                   envVars, findingVars>>

\* ... _state.lock(); }
shutdownRelock(t) ==
    /\ thread[t].pc = "sd_relock"
    /\ lockFree
    /\ stateLock' = t
    /\ Goto(t, "sd_drain")
    /\ UNCHANGED <<flags, openOperations, cfgVars, timeVars, metadata,
                   envVars, findingVars>>

\* _state.clear(); _state.toggleFlag(shutdown)
shutdownClear(t) ==
    /\ thread[t].pc = "sd_clear"
    /\ flags' = toggleFlag({}, "shutdown")
    /\ Goto(t, "sd_tables")
    /\ UNCHANGED <<stateLock, openOperations, cfgVars, timeVars, metadata,
                   envVars, findingVars>>

\* clearTables()
shutdownTables(t) ==
    /\ thread[t].pc = "sd_tables"
    /\ clearTablesCalls' = clearTablesCalls + 1
    /\ Goto(t, "sd_unreg")
    /\ UNCHANGED <<cacheVars, now, unregisterCalls, shutdownReturned,
                   managerAnswer, fault, findingVars>>

\* _manager->unregisterCache(_metadata); _state.unlock(); return
shutdownUnregister(t) ==
    /\ thread[t].pc = "sd_unreg"
    /\ metadata.lock = 0
    /\ unregisterCalls' = unregisterCalls + 1
    /\ metadata' = [metadata EXCEPT !.valid = FALSE]
    /\ stateLock' = 0
    /\ shutdownReturned' = TRUE
    /\ thread' = [thread EXCEPT ![t] = Returned(thread[t])]
    /\ UNCHANGED <<flags, openOperations, cfgVars, timeVars, now,
                   clearTablesCalls, managerAnswer, fault, findingVars>>

\* ---------------------------------------------------------- the environment
\* The places where a thread is about to use *_metadata.
MetaUses == {"q_mlock", "rs_poll", "rr_mlock", "rm_mlock", "sd_unreg",
             "rc_lock"}

\* A use of *_metadata when _metadata refers to no registered metadata is
\* undefined: the process may go on as if it were there, or stop here (and
\* then no thread takes another step).
Undefined(t) ==
    /\ thread[t].pc \in MetaUses
    /\ ~metadata.valid
    /\ fault' = TRUE
    /\ thread' = [u \in Threads |-> [thread[u] EXCEPT !.pc = "stopped"]]
    /\ UNCHANGED <<cacheVars, now, clearTablesCalls, unregisterCalls,
                   shutdownReturned, managerAnswer, findingVars>>

\* Time passes.
Tick ==
    /\ ~fault
    /\ now < MaxTime
    /\ now' = now + 1
    /\ UNCHANGED <<cacheVars, clearTablesCalls, unregisterCalls,
                   shutdownReturned, managerAnswer, fault, thread,
                   findingVars>>

\* --------------------------------------------------------- the life cycle
\* The worker threads call limit, usage, resize, beginShutdown and shutdown;
\* the other threads only end the cache's life.
Init ==
    /\ \E registered \in BOOLEAN : CacheInit(registered, {TRUE})
    /\ EnvInit
    /\ FindingInit

LifeOps == {"limit", "usage", "resize", "beginShutdown", "shutdown"}
CloseOps == {"beginShutdown", "shutdown"}

Next ==
    \/ \E t \in Workers : \E o \in LifeOps : Call(t, o)
    \/ \E t \in Closers : \E o \in CloseOps : Call(t, o)
    \/ \E t \in Threads :
         \/ queryLock(t) \/ queryMeta(t) \/ queryRead(t)
         \/ resizeStart(t) \/ resizePoll(t) \/ resizePolled(t)
         \/ resizeEnd(t)
         \/ requestResizeLock(t) \/ requestResizeMeta(t)
         \/ requestResizeRead(t) \/ requestResizeAnswer(t)
         \/ beginShutdown(t)
         \/ shutdownLock(t) \/ shutdownDrain(t) \/ shutdownRelock(t)
         \/ shutdownClear(t) \/ shutdownTables(t)
         \/ shutdownUnregister(t)
         \/ Undefined(t)
    \/ managerResized

Spec == Init /\ [][Next]_vars

\* ------------------------------------------------------------- properties
\* Thread t leaves the place `from` by a step of its own.
Moved(t, from) ==
    thread[t].pc = from /\ thread'[t].pc \notin {from, "stopped"}

Teardown == {"sd_clear", "sd_tables", "sd_unreg"}

\* C1 (as claimed): no call of shutdown() sets the shutdown flag, calls
\* clearTables() or unregisterCache(), or returns, while an operation that
\* incremented the open-operation counter has not yet decremented it.
ShutdownNeverReturnsEarly ==
    [][\A t \in Threads :
          /\ thread[t].pc \in Teardown => openOperations = 0
          /\ (thread[t].op = "shutdown" /\ thread'[t].pc = "idle")
                => openOperations = 0]_vars

\* C1 (amended): the teardown steps of shutdown() (setting the shutdown
\* flag, clearTables(), unregisterCache()) happen only while the
\* open-operation counter is 0, and the call that performs them returns with
\* the counter at 0. (A call that finds the shutdown flag already set
\* returns at once, whatever the counter.)
DrainCorrect ==
    /\ [](\A t \in Threads :
            thread[t].pc \in Teardown => openOperations = 0)
    /\ [][\A t \in Threads :
            Moved(t, "sd_unreg") => openOperations' = 0]_vars

\* C1, witness: a call of shutdown() that had to wait for an open operation
\* is setting the shutdown flag.
DrainCorrectWitness ==
    \E t \in Threads : thread[t].pc = "sd_clear" /\ thread[t].waited

\* C4: once shutdown() has returned the instance stays shut down; a limit()
\* or usage() that finds the instance non-operational returns 0 without
\* touching the metadata; a resize() that finds it non-operational never
\* polls the resizing flag nor calls the manager, returns false and leaves
\* the open-operation counter as it found it.
NonOperationalIsNoOp ==
    /\ [](shutdownReturned => "shutdown" \in flags)
    /\ [](\A t \in Threads :
            (thread[t].op = "resize" /\ ~thread[t].allowed
                          /\ thread[t].pc \notin {"done", "stopped"})
               => /\ thread[t].pc \in {"rs_lock", "rs_end"}
                  /\ ~thread[t].resized)
    /\ [][\A t \in Threads :
            /\ (Moved(t, "q_lock") /\ ~isOperational)
                  => /\ thread'[t].pc = "done"
                     /\ thread'[t].ret = 0
                     /\ metadata' = metadata
            /\ (Moved(t, "rs_lock") /\ ~isOperational)
                  => /\ thread'[t].pc = "rs_end"
                     /\ openOperations' = openOperations + 1
            /\ (Moved(t, "rs_end") /\ ~thread[t].allowed)
                  => /\ thread'[t].pc = "done"
                     /\ ~thread'[t].resized
                     /\ openOperations' = openOperations - 1
                     /\ managerAnswer' = managerAnswer]_vars

\* C4, witness: after shutdown() has torn the cache down, a resize() has
\* been turned away and a limit() or usage() has returned 0.
NonOperationalWitness ==
    /\ shutdownReturned
    /\ unregisterCalls > 0
    /\ \E t, u \in Threads :
         /\ thread[t].pc = "rs_end" /\ ~thread[t].allowed
         /\ thread[u].pc = "done" /\ thread[u].op \in {"limit", "usage"}
         /\ thread[u].ret = 0

\* C5: for a registered instance, clearTables() and unregisterCache() are
\* called at most once, however many calls of shutdown() and
\* beginShutdown() there are.
TeardownOnce == clearTablesCalls <= 1 /\ unregisterCalls <= 1

\* C6: no call of the manager's requestResize made through resize() begins
\* while the resizing flag of the metadata is set, and no two calls of the
\* manager's requestResize overlap.
ResizesSerialized ==
    /\ [](Cardinality({t \in Threads : thread[t].pc = "rr_incall"}) <= 1)
    /\ [][\A t \in Threads :
            (thread[t].op = "resize" /\ Moved(t, "rr_read"))
               => ~metadata.resizing]_vars

\* ------------------------------------------------- the adaptive requests
\* The first worker makes the requests to grow that the cache makes on its
\* own account (requestResize with internal = true), the other workers call
\* resize(); time passes, and another thread shuts the cache down.
InitAdaptive ==
    /\ CacheInit(TRUE, BOOLEAN)
    /\ EnvInit
    /\ FindingInit

NextCooldown ==
    \/ Call(1, "requestResize")
    \/ \E t \in Workers \ {1} : Call(t, "resize")
    \/ \E t \in Closers : Call(t, "shutdown")
    \/ \E t \in Threads :
         \/ resizeStart(t) \/ resizePoll(t) \/ resizePolled(t)
         \/ resizeEnd(t)
         \/ requestResizeLock(t) \/ requestResizeMeta(t)
         \/ requestResizeRead(t) \/ requestResizeAnswer(t)
         \/ shutdownLock(t) \/ shutdownDrain(t) \/ shutdownRelock(t)
         \/ shutdownClear(t) \/ shutdownTables(t)
         \/ shutdownUnregister(t)
         \/ Undefined(t)
    \/ Tick
    \/ managerResized

SpecCooldown == InitAdaptive /\ [][NextCooldown]_vars

\* The first worker calls requestMigrate, as the insertions into the cache
\* do; records are added to the statistics, time passes, and another thread
\* shuts the cache down. No thread opens an operation here, so that
\* shutdown() never has to wait in its loop.
NextMigrate ==
    \/ Call(1, "requestMigrate")
    \/ \E t \in Closers : Call(t, "shutdown")
    \/ \E t \in Threads :
         \/ requestMigrateSkipped(t) \/ requestMigrateCount(t)
         \/ requestMigrateStats(t) \/ requestMigrateLock(t)
         \/ requestMigrateMeta(t) \/ requestMigrateRead(t)
         \/ requestMigrateAnswer(t)
         \/ shutdownLock(t) \/ shutdownDrain(t)
         \/ shutdownClear(t) \/ shutdownTables(t)
         \/ shutdownUnregister(t)
         \/ Undefined(t)
    \/ \E stat \in Tags : recordStat(stat)
    \/ Tick
    \/ migrateStarted
    \/ managerMigrated

SpecMigrate == InitAdaptive /\ [][NextMigrate]_vars

\* The places of requestResize and requestMigrate from the locking of the
\* metadata to the end of the call of the manager.
InRequest == {"rr_mlock", "rr_read", "rr_incall",
              "rm_mlock", "rm_read", "rm_incall"}

\* C7: once the instance is shutting down or shut down, no call of
\* requestMigrate or of requestResize with internal = true locks or reads
\* the metadata or calls the manager.
AdaptiveRequestsAreNoOps ==
    \A t \in Threads :
        (thread[t].op \in {"requestResize", "requestMigrate"}
           /\ thread[t].pc \in InRequest) => isOperational

\* C8: a requestResize with internal = true that finds growth not allowed,
\* or the time not after _resizeRequestTime, returns false without calling
\* the manager; the requestResize of a resize() always goes on to call the
\* manager; and when a call of the manager's requestResize returns,
\* _resizeRequestTime is the time the manager returned, whether the request
\* was accepted or not.
ResizeCooldown ==
    [][\A t \in Threads :
         /\ (Moved(t, "rr_lock") /\ internal(t)
               /\ ~(allowGrowth /\ now > resizeRequestTime))
               => /\ thread'[t].pc = "done"
                  /\ ~thread'[t].resized
                  /\ ~thread'[t].called
                  /\ UNCHANGED <<metadata, managerAnswer, resizeRequestTime>>
         /\ (Moved(t, "rr_lock") /\ thread[t].op = "resize")
               => thread'[t].pc = "rr_mlock"
         /\ Moved(t, "rr_mlock") => thread'[t].pc = "rr_read"
         /\ Moved(t, "rr_read") => thread'[t].pc = "rr_incall"
         /\ Moved(t, "rr_incall")
               => /\ resizeRequestTime' = managerAnswer'[2]
                  /\ thread'[t].resized = managerAnswer'[1]]_vars

\* C8, witness: the manager has turned a request down and named a later
\* time, which is stored; since then an internal request has returned
\* without a call of the manager although growth is allowed, and a resize()
\* has returned from its call of the manager.
ResizeCooldownWitness ==
    /\ allowGrowth
    /\ now > 0
    /\ now <= resizeRequestTime
    /\ managerAnswer = <<FALSE, resizeRequestTime>>
    /\ \E t, u \in Threads :
         /\ thread[t].op = "requestResize" /\ thread[t].pc = "done"
         /\ ~thread[t].called
         /\ thread[u].op = "resize" /\ thread[u].pc = "done"
         /\ thread[u].called

\* C9: when a call of the manager's requestMigrate returns the time T, T is
\* stored in _migrateRequestTime and _resizeRequestTime is left as it was.
MigrateCooldownStored ==
    [][\A t \in Threads :
         Moved(t, "rm_incall")
            => /\ migrateRequestTime' = managerAnswer'[2]
               /\ resizeRequestTime' = resizeRequestTime]_vars

\* C10: no call of the manager's requestMigrate is made on statistics that
\* hold two tags of which the more frequent has at most 16 times the count
\* of the other.
MigrateThreshold ==
    \A t \in Threads :
        thread[t].pc = "rm_incall"
           => ~(/\ Len(thread[t].stats) = 2
                /\ thread[t].stats[1][2]
                     <= RatioFactor * thread[t].stats[2][2])

\* ------------------------------------------------ Finding and freeValue
\* CachedValue::lease and CachedValue::release: refCount is incremented
\* and decremented atomically.
lease(c, v) == [c EXCEPT ![v].refCount = @ + 1]

release(c, v) == [c EXCEPT ![v].refCount = @ - 1]

\* a Finding that takes a value and no lease
leasedNever(c, v) == c

\* if (_value != nullptr) { _value->lease(); }
leased(c, v) == IF v # Null THEN lease(c, v) ELSE c

\* if (_value != nullptr) { _value->release(); }
released(c, v) == IF v # Null THEN release(c, v) ELSE c

\* Finding f is in no call, and no call in progress reads it
Quiet(f) ==
    /\ finding[f].pc = "idle"
    /\ \A h \in Findings : finding[h].pc # "idle" => finding[h].src # f

\* Finding f exists and is in no call
Live(f) == finding[f].alive /\ finding[f].pc = "idle"

\* Finding::found
found(f) == finding[f].value # Null

\* The pointers a lookup may hand to a Finding: nullptr, or a value found
\* in the table while the table is locked against removals.
Lookup(v) == IF v = Null THEN TRUE ELSE ~tableBusy /\ cached[v].linked

\* Finding::Finding(CachedValue* v)
FindingValue(f, v) ==
    /\ ~finding[f].alive /\ Quiet(f)
    /\ Lookup(v)
    /\ finding' = [finding EXCEPT ![f] = [NoFinding EXCEPT !.alive = TRUE,
                                                           !.value = v]]
    /\ cached' = leased(cached, v)
    /\ UNCHANGED <<cacheVars, envVars, thread, tableBusy>>

\* Finding::Finding(Finding const& other)
FindingCopy(f, other) ==
    /\ ~finding[f].alive /\ Quiet(f)
    /\ Live(other)
    /\ finding' = [finding EXCEPT ![f] =
                     [NoFinding EXCEPT !.alive = TRUE,
                                       !.value = finding[other].value]]
    /\ cached' = leased(cached, finding[other].value)
    /\ UNCHANGED <<cacheVars, envVars, thread, tableBusy>>

\* Finding::Finding(Finding&& other)
FindingMove(f, other) ==
    /\ ~finding[f].alive /\ Quiet(f)
    /\ Live(other) /\ Quiet(other)
    /\ finding' = [finding EXCEPT
                     ![f] = [NoFinding EXCEPT !.alive = TRUE,
                                              !.value = finding[other].value],
                     ![other].value = Null]
    /\ UNCHANGED <<cacheVars, envVars, thread, cached, tableBusy>>

\* Finding::operator=(Finding const& other), up to the release of the
\* value held; nothing is done when other is *this.
assignCopy(f, other) ==
    /\ Live(f) /\ Quiet(f)
    /\ Live(other)
    /\ IF other = f
         THEN UNCHANGED <<finding, cached>>
         ELSE /\ cached' = released(cached, finding[f].value)
              /\ finding' = [finding EXCEPT ![f].pc = "assign",
                                            ![f].src = other]
    /\ UNCHANGED <<cacheVars, envVars, thread, tableBusy>>

\* ... _value = other._value; if (_value != nullptr) { _value->lease(); }
assignCopied(f) ==
    /\ finding[f].pc = "assign"
    /\ LET v == finding[finding[f].src].value
       IN  /\ finding' = [finding EXCEPT ![f].value = v,
                                         ![f].pc = "idle",
                                         ![f].src = Null]
           /\ cached' = leased(cached, v)
    /\ UNCHANGED <<cacheVars, envVars, thread, tableBusy>>

\* Finding::operator=(Finding&& other)
assignMove(f, other) ==
    /\ Live(f) /\ Quiet(f)
    /\ Live(other) /\ Quiet(other)
    /\ IF other = f
         THEN UNCHANGED <<finding, cached>>
         ELSE /\ cached' = released(cached, finding[f].value)
              /\ finding' = [finding EXCEPT
                               ![f].value = finding[other].value,
                               ![other].value = Null]
    /\ UNCHANGED <<cacheVars, envVars, thread, tableBusy>>

\* Finding::~Finding
FindingDestroy(f) ==
    /\ Live(f) /\ Quiet(f)
    /\ cached' = released(cached, finding[f].value)
    /\ finding' = [finding EXCEPT ![f] = NoFinding]
    /\ UNCHANGED <<cacheVars, envVars, thread, tableBusy>>

\* Finding::reset(CachedValue* v), up to the release of the value held
reset(f, v) ==
    /\ Live(f) /\ Quiet(f)
    /\ Lookup(v)
    /\ cached' = released(cached, finding[f].value)
    /\ finding' = [finding EXCEPT ![f].pc = "reset", ![f].arg = v]
    /\ tableBusy' = IF v # Null THEN TRUE ELSE tableBusy
    /\ UNCHANGED <<cacheVars, envVars, thread>>

\* ... _value = v; if (_value != nullptr) { _value->lease(); }
resetDone(f) ==
    /\ finding[f].pc = "reset"
    /\ finding' = [finding EXCEPT ![f].value = finding[f].arg,
                                  ![f].pc = "idle", ![f].arg = Null]
    /\ cached' = leased(cached, finding[f].arg)
    /\ tableBusy' = IF finding[f].arg # Null THEN FALSE ELSE tableBusy
    /\ UNCHANGED <<cacheVars, envVars, thread>>

\* A removal takes the value out of the table, with the table locked, and
\* then calls freeValue(value).
unlink(v) ==
    /\ ~tableBusy
    /\ cached[v].linked
    /\ cached' = [cached EXCEPT ![v].linked = FALSE, ![v].freePc = "spin"]
    /\ UNCHANGED <<cacheVars, envVars, thread, finding, tableBusy>>

\* a freeValue that does not look at the count
freeNeverWaits(refCount) == FALSE

\* value->refCount.load() > 0
freeWaits(refCount) == refCount > 0

\* Cache::freeValue: while (value->refCount.load() > 0) { usleep(1); }
freeValueSpin(v) ==
    /\ cached[v].freePc = "spin"
    /\ cached' = IF freeWaits(cached[v].refCount)
                   THEN [cached EXCEPT ![v].waited = TRUE]
                   ELSE [cached EXCEPT ![v].freePc = "delete"]
    /\ UNCHANGED <<cacheVars, envVars, thread, finding, tableBusy>>

\* ... delete value
freeValueDelete(v) ==
    /\ cached[v].freePc = "delete"
    /\ cached' = [cached EXCEPT ![v].freed = TRUE, ![v].freePc = "done",
                                ![v].deletes = @ + 1]
    /\ UNCHANGED <<cacheVars, envVars, thread, finding, tableBusy>>

\* The users of the cache make, copy, move, assign, reset and destroy their
\* Findings while values are removed from the table and freed.
InitFinding ==
    /\ CacheInit(TRUE, {TRUE})
    /\ EnvInit
    /\ FindingInit

NextFinding ==
    \/ \E f \in Findings : \E v \in Values \cup {Null} : FindingValue(f, v)
    \/ \E f, other \in Findings : FindingCopy(f, other)
    \/ \E f, other \in Findings : FindingMove(f, other)
    \/ \E f, other \in Findings : assignCopy(f, other)
    \/ \E f \in Findings : assignCopied(f)
    \/ \E f, other \in Findings : assignMove(f, other)
    \/ \E f \in Findings : FindingDestroy(f)
    \/ \E f \in Findings : \E v \in Values \cup {Null} : reset(f, v)
    \/ \E f \in Findings : resetDone(f)
    \/ \E v \in Values : unlink(v)
    \/ \E v \in Values : freeValueSpin(v)
    \/ \E v \in Values : freeValueDelete(v)

SpecFinding == InitFinding /\ [][NextFinding]_vars

\* The Findings that hold a lease of value v.
Holders(v) == {f \in Findings : Live(f) /\ finding[f].value = v}

\* C2: freeValue deletes a value only when it is out of the table and its
\* refCount is 0; no Finding refers to a deleted value; and a value is
\* deleted at most once, exactly once when freeValue has returned.
FreedOnlyWhenUnleased ==
    /\ [](\A v \in Values :
            /\ cached[v].freed
                  => /\ cached[v].refCount = 0
                     /\ ~cached[v].linked
                     /\ Holders(v) = {}
            /\ cached[v].deletes <= 1
            /\ cached[v].freePc = "done" <=> cached[v].deletes = 1)
    /\ [][\A v \in Values :
            cached'[v].deletes # cached[v].deletes
               => /\ cached[v].refCount = 0
                  /\ ~cached[v].linked
                  /\ Holders(v) = {}]_vars

\* C2, witness: a value has been deleted by a freeValue that found it
\* leased and waited.
FreedOnlyWhenUnleasedWitness ==
    \E v \in Values : cached[v].freed /\ cached[v].waited

\* C3: the refCount of a value is the number of Findings that refer to it
\* (and so is never negative); the copy of a found Finding adds exactly one
\* to the refCount, a move leaves it as it is and leaves the source not
\* found, the destruction of a found Finding takes exactly one from it.
LeaseCountIsFindings ==
    /\ [](\A v \in Values :
            /\ cached[v].refCount = Cardinality(Holders(v))
            /\ cached[v].refCount >= 0)
    /\ [][\A f, other \in Findings : \A v \in Values :
            /\ (FindingCopy(f, other) /\ finding[other].value = v)
                  => /\ cached'[v].refCount = cached[v].refCount + 1
                     /\ finding'[f].value = v
                     /\ finding'[other].value = v
            /\ ((FindingMove(f, other) \/ (assignMove(f, other) /\ f # other))
                   /\ finding[other].value = v)
                  => /\ cached'[v].refCount =
                          cached[v].refCount
                            - (IF finding[f].alive /\ finding[f].value = v
                                 THEN 1 ELSE 0)
                     /\ finding'[f].value = v
                     /\ ~found(other)'
            /\ (FindingDestroy(f) /\ finding[f].value = v)
                  => /\ cached'[v].refCount = cached[v].refCount - 1
                     /\ ~finding'[f].alive]_vars

\* C3, witness: two Findings hold the same value, whose refCount is 2, and
\* a third Finding, which has been moved from or reset, holds nothing.
LeaseCountWitness ==
    \E v \in Values : \E f, g, h \in Findings :
        /\ f # g
        /\ Holders(v) = {f, g}
        /\ cached[v].refCount = 2
        /\ Live(h) /\ ~found(h)

\* The places of requestMigrate after the test of the insertion counter.
PastGate == {"rm_stats", "rm_lock", "rm_mlock", "rm_read", "rm_incall"}

\* C11: a call of requestMigrate whose incremented insertion counter has one
\* of its low 12 bits set returns without reading the statistics or calling
\* the manager; the call that brings the counter to a multiple of 4096 on
\* an operational instance that is not migrating, whose cooldown is over
\* and whose statistics hold only eviction records, goes on, finds _state
\* free, and calls the manager once, with logSize + 1 when it was given 0.
SamplingGate ==
    /\ [](\A t \in Threads :
            /\ thread[t].pc \in PastGate
                  => insertionCount >= InsertionMask + 1
            /\ (thread[t].pc = "rm_lock" /\ isOperational) => stateLock = 0)
    /\ [][\A t \in Threads :
            /\ (Moved(t, "rm_count")
                  /\ (insertionCount + 1) % (InsertionMask + 1) # 0)
                  => /\ thread'[t].pc = "idle"
                     /\ UNCHANGED <<stateLock, flags, evictionStats,
                                    timeVars, metadata, managerAnswer>>
            /\ (Moved(t, "rm_stats") /\ evictionStats["eviction"] > 0
                  /\ evictionStats["noEviction"] = 0)
                  => thread'[t].pc = "rm_lock"
            /\ (Moved(t, "rm_lock") /\ stateLock = 0 /\ ~isMigrating
                  /\ now > migrateRequestTime)
                  => thread'[t].pc = "rm_mlock"
            /\ Moved(t, "rm_mlock") => thread'[t].pc = "rm_read"
            /\ (Moved(t, "rm_read") /\ metadata.valid)
                  => /\ thread'[t].pc = "rm_incall"
                     /\ thread'[t].newLimit =
                          (IF thread[t].arg = 0 THEN metadata.logSize + 1
                                                ELSE thread[t].arg)
            /\ Moved(t, "rm_incall") => thread'[t].pc = "idle"]_vars

\* C11, witness: the 4096th call of requestMigrate(0), on an operational
\* instance with only eviction records, is in its call of the manager with
\* logSize + 1.
SamplingGateWitness ==
    \E t \in Threads :
        /\ thread[t].pc = "rm_incall"
        /\ thread[t].arg = 0
        /\ insertionCount = InsertionMask + 1
        /\ isOperational
        /\ Len(thread[t].stats) = 1
        /\ thread[t].stats[1][1] = "eviction"
        /\ thread[t].newLimit = metadata.logSize + 1

\* C16: no call of the manager's requestMigrate is made while the metadata
\* of the instance is marked migrating; a call of requestMigrate that comes
\* to its test with the metadata marked migrating returns without calling
\* the manager and leaves the statistics as they are.
NoMigrateWhileMigrating ==
    /\ [](\A t \in Threads :
            thread[t].pc \in {"rm_mlock", "rm_read", "rm_incall"}
               => ~(metadata.valid /\ metadata.migrating))
    /\ [][\A t \in Threads :
            (Moved(t, "rm_lock") /\ metadata.valid /\ metadata.migrating)
               => /\ thread'[t].pc = "idle"
                  /\ evictionStats' = evictionStats]_vars

\* The instance whose registration failed: it has no metadata and
\* unregisterCache has not been called.
BornDead == ~metadata.valid /\ unregisterCalls = 0

\* C12: an instance whose registration failed keeps the flags {shutdown};
\* its limit() and usage() return 0 and its resize() returns false; no
\* call of it locks or reads the metadata, calls the manager (requestResize,
\* unregisterCache) or clears the tables.
RegistrationFailureIsInert ==
    BornDead
      => /\ flags = {"shutdown"}
         /\ ~fault
         /\ clearTablesCalls = 0
         /\ metadata.lock = 0
         /\ managerAnswer = <<FALSE, 0>>
         /\ \A t \in Threads :
              /\ thread[t].pc \in {"idle", "done", "q_lock", "rs_lock",
                                   "rs_end", "bs_lock", "sd_lock"}
              /\ thread[t].pc = "done"
                    => /\ thread[t].ret = 0
                       /\ ~thread[t].resized
                       /\ ~thread[t].called

\* C12, witness: on an instance whose registration failed a shutdown() has
\* returned, a resize() has returned and a limit() or usage() has returned.
RegistrationFailureWitness ==
    /\ BornDead
    /\ shutdownReturned
    /\ \E t, u \in Threads :
         /\ thread[t].pc = "done" /\ thread[t].op = "resize"
         /\ thread[u].pc = "done" /\ thread[u].op \in {"limit", "usage"}

\* C13: while _state is not locked the flags shutdown and shuttingDown are
\* never both set; an instance that is not operational never becomes
\* operational again; the shutdown flag is set only on an instance that is
\* shutting down, whose shuttingDown flag is cleared by the same step; and
\* once the shutdown flag is set it stays set.
LifecycleFlags ==
    /\ [](stateLock = 0 => ~({"shutdown", "shuttingDown"} \subseteq flags))
    /\ [][/\ ~isOperational => ~isOperational'
          /\ "shutdown" \in flags => "shutdown" \in flags'
          /\ ("shutdown" \notin flags /\ "shutdown" \in flags')
                => /\ "shuttingDown" \in flags
                   /\ "shuttingDown" \notin flags']_vars

\* C13, witness: shutdown() has torn the cache down, the flags are
\* {shutdown}, and a beginShutdown() is about to look at them.
LifecycleFlagsWitness ==
    /\ unregisterCalls = 1
    /\ flags = {"shutdown"}
    /\ stateLock = 0
    /\ \E t \in Threads : thread[t].pc = "bs_lock"

\* C14: requestResize reads the hard limit with the metadata locked; it
\* passes to the manager twice the hard limit when requestedLimit is 0 and
\* requestedLimit otherwise; and what it returns (and resize() after it) is
\* the accepted flag of the manager's answer.
NewLimitChosen ==
    /\ [](\A t \in Threads : thread[t].pc = "rr_read" => metadata.lock = t)
    /\ [][\A t \in Threads :
            /\ (Moved(t, "rr_read") /\ metadata.valid)
                  => thread'[t].newLimit =
                        (IF thread[t].arg = 0 THEN 2 * metadata.hardLimit
                                              ELSE thread[t].arg)
            /\ Moved(t, "rr_incall")
                  => /\ thread'[t].resized = managerAnswer'[1]
                     /\ thread'[t].pc =
                          (IF thread[t].op = "resize" THEN "rs_end"
                                                      ELSE "done")
            /\ Moved(t, "rs_end")
                  => /\ thread'[t].pc = "done"
                     /\ thread'[t].resized = thread[t].resized]_vars

\* C14, witness: a requestResize given 0 is in its call of the manager with
\* twice the hard limit, and one given a limit with that limit.
NewLimitWitness ==
    \E t \in Threads :
        /\ thread[t].pc = "rr_incall"
        /\ thread[t].arg = 0
        /\ metadata.valid
        /\ metadata.hardLimit = 1
        /\ thread[t].newLimit = 2

\* The places of resize() between startOperation() and endOperation().
Open == {"rs_poll", "rs_polled", "rr_lock", "rr_mlock", "rr_read",
         "rr_incall", "rs_end"}

\* C19: while the process runs, the open-operation counter is the number of
\* calls of resize() that have done startOperation() and not yet
\* endOperation(): it is never negative and is 0 when no resize() is in
\* progress.
CounterBalance ==
    ~fault
      => /\ openOperations =
              Cardinality({t \in Threads :
                             thread[t].op = "resize" /\ thread[t].pc \in Open})
         /\ openOperations >= 0

\* C19, witness: two calls of resize() are in progress, one allowed and one
\* turned away, and the counter is 2.
CounterBalanceWitness ==
    /\ openOperations = 2
    /\ \E t, u \in Threads :
         /\ thread[t].pc = "rs_end" /\ ~thread[t].allowed
         /\ thread[u].pc = "rs_poll"

\* --------------------------------------------------------------- the locks
\* One worker makes the requests of the cache's own account (requestResize
\* with internal = true, requestMigrate) and calls limit(), usage(),
\* resize() and reclaimMemory(), one call after the other; eviction records
\* are added, time passes, and another thread shuts the cache down.
\* The manager calls reclaimMemory() on a cache that it has registered.
LockOps == {"requestResize", "requestMigrate", "limit", "usage",
            "reclaimMemory"}

NextLocks ==
    \/ \E o \in LockOps : Call(1, o)
    \/ \E t \in Closers : Call(t, "shutdown")
    \/ \E t \in Threads :
         \/ queryLock(t) \/ queryMeta(t) \/ queryRead(t)
         \/ requestResizeLock(t) \/ requestResizeMeta(t)
         \/ requestResizeRead(t) \/ requestResizeAnswer(t)
         \/ requestMigrateSkipped(t) \/ requestMigrateCount(t)
         \/ requestMigrateStats(t) \/ requestMigrateLock(t)
         \/ requestMigrateMeta(t) \/ requestMigrateRead(t)
         \/ requestMigrateAnswer(t)
         \/ reclaimLock(t) \/ reclaimAdjust(t)
         \/ shutdownLock(t) \/ shutdownDrain(t)
         \/ shutdownClear(t) \/ shutdownTables(t)
         \/ shutdownUnregister(t)
         \/ Undefined(t)
    \/ recordStat("eviction")
    \/ Tick
    \/ managerResized
    \/ managerMigrated

InitLocks ==
    /\ CacheInit(TRUE, {TRUE})
    /\ EnvInit
    /\ FindingInit

SpecLocks == InitLocks /\ [][NextLocks]_vars

\* C17: lock discipline. A thread inside a call of the manager
\* (requestResize, requestMigrate, unregisterCache) does not hold the lock
\* of the metadata; a thread that is in no operation holds no lock of the
\* metadata; and no step takes _state while its thread holds the lock of
\* the metadata, so the lock of the metadata is only ever taken after
\* _state or without it.
ManagerCalls == {"rr_incall", "rm_incall", "sd_unreg"}

LockDiscipline ==
    /\ [](\A t \in Threads :
            /\ thread[t].pc \in ManagerCalls => metadata.lock # t
            /\ thread[t].pc \in {"idle", "done"} => metadata.lock # t)
    /\ [][\A t \in Threads :
            (stateLock # t /\ stateLock' = t) => metadata.lock # t]_vars

\* a thread has read the metadata under both locks, has released the lock
\* of the metadata and is inside Manager::requestMigrate, holding _state
LockDisciplineWitness ==
    \E t \in Threads :
        /\ thread[t].pc = "rm_incall"
        /\ thread[t].called
        /\ stateLock = t
        /\ metadata.lock = 0
        /\ ~fault

\* C18: lock contention is a skip. The step in which an internal
\* requestResize or a triggered requestMigrate finds _state held at its
\* tenth try ends the call: no call of the manager has been made, resized
\* is false, the flags, both request times, the sampler, the insertion
\* count and the metadata are as they were, and _state is still held by
\* the thread that held it, not by the caller.
LastTry(t) ==
    /\ thread[t].pc \in {"rr_lock", "rm_lock"}
    /\ thread[t].op \in {"requestResize", "requestMigrate"}
    /\ thread[t].tries = LockTries - 1
    /\ stateLock \notin {0, t}

ContentionIsSkip ==
    [][\A t \in Threads :
         (LastTry(t) /\ thread'[t] # thread[t] /\ ~fault') =>
            /\ thread'[t].pc \in {"idle", "done"}
            /\ ~thread'[t].called
            /\ ~thread'[t].resized
            /\ stateLock' = stateLock
            /\ UNCHANGED <<flags, timeVars, evictionStats, insertionCount,
                           metadata, managerAnswer, unregisterCalls>>]_vars

\* a triggered requestMigrate has found _state held nine times and another
\* thread still holds it
ContentionWitness ==
    \E t \in Threads :
        /\ LastTry(t)
        /\ thread[t].op = "requestMigrate"
        /\ ~fault

\* C20: a Finding that refers to value v before and after a reset or a
\* copy assignment keeps its lease of v throughout: while the call is in
\* progress and the value that comes in is the value held, the refCount
\* of that value is at least 1.
SameValue(f) ==
    CASE finding[f].pc = "reset" -> finding[f].arg = finding[f].value
      [] finding[f].pc = "assign" ->
           finding[finding[f].src].value = finding[f].value
      [] OTHER -> FALSE

LeaseKeptThroughout ==
    \A f \in Findings :
        (found(f) /\ SameValue(f)) => cached[finding[f].value].refCount >= 1

\* ----------------------------------------------------- fair scheduling
\* A finite set of callers: a thread calls resize() once and then makes no
\* other call, beginShutdown() is called on a cache that is operational and
\* shutdown() while no shutdown() has returned. Every thread that can take
\* a step infinitely often does take it (a thread that spins on a lock
\* gets the lock if it is free again and again), and the manager finishes
\* the resize in flight.
LiveOps == {"resize", "beginShutdown", "shutdown"}

CallOnce(t, o) ==
    /\ thread[t].pc = "idle"
    /\ o = "beginShutdown" => isOperational
    /\ o = "shutdown" => ~shutdownReturned
    /\ Call(t, o)

LiveStep(t) ==
    \/ resizeStart(t) \/ resizePoll(t) \/ resizePolled(t) \/ resizeEnd(t)
    \/ requestResizeLock(t) \/ requestResizeMeta(t)
    \/ requestResizeRead(t) \/ requestResizeAnswer(t)
    \/ beginShutdown(t)
    \/ shutdownLock(t) \/ shutdownDrain(t) \/ shutdownRelock(t)
    \/ shutdownClear(t) \/ shutdownTables(t) \/ shutdownUnregister(t)

NextLive ==
    \/ \E t \in Threads : \E o \in LiveOps : CallOnce(t, o)
    \/ \E t \in Threads : LiveStep(t)
    \/ \E t \in Threads : Undefined(t)
    \/ managerResized

SpecLive ==
    /\ Init
    /\ [][NextLive]_vars
    /\ \A t \in Threads : SF_vars(LiveStep(t))
    /\ SF_vars(managerResized)

\* C15: under fair scheduling, with a manager that finishes every resize,
\* every call of shutdown() and every call of resize() returns.
InCall(t) ==
    /\ thread[t].op \in {"shutdown", "resize"}
    /\ thread[t].pc \notin {"idle", "done"}

====
